---- MODULE Spec2Model ----
(***************************************************************************)
(* CarryVault (src/app.js): the CarryVaultApp facade over an IndexedDB     *)
(* record store, its startup load, its add operations and the permit       *)
(* alert computations.                                                     *)
(*                                                                         *)
(* Time is counted in ticks; TicksPerDay ticks make one day (the source    *)
(* counts milliseconds, 1000*60*60*24 to the day).  A store request is     *)
(* issued in one step and completes in a later one; the promise            *)
(* continuation of the awaiting facade method runs in the completing step  *)
(* (it is a microtask of the request's event).                             *)
(*                                                                         *)
(* updateComplianceInfo declares 'const info' twice in one block           *)
(* (src/app.js:427 and 448).  That is an early error: the parser rejects   *)
(* the file as shipped, CarryVaultApp is never defined and nothing of the  *)
(* file runs.  The variable 'script' records this: "SyntaxError" is the    *)
(* file as shipped, where no step is taken; "loaded" is the same file with *)
(* that one declaration repaired, the program whose methods the actions    *)
(* below are translated from.                                              *)
(***************************************************************************)
EXTENDS Integers, Sequences, FiniteSets, TLC

\* ---------------------------------------------------------------- bounds
MaxCalls == 2
MaxTicks == 1
MaxPermits == 3
StartClock == 10
TicksPerDay == 2

\* ------------------------------------------------------ program constants
UrgentDays == 30
SoonDays == 90

VARIABLES
    script,     \* what became of loading app.js
    db,         \* this.db is set (the store was opened)
    initPc,     \* where init() is suspended
    store,      \* the persistent object stores, each in key order
    data,       \* this.data, the in-memory snapshot
    inflight,   \* store requests issued and not yet completed, in issue order
    calls,      \* the facade calls made so far, with their outcome
    clock,      \* Date.now()
    dashboard,  \* the four counters updateDashboard writes
    alertList,  \* the alert cards updateAlerts renders
    logged      \* console.error messages

vars == <<script, db, initPc, store, data, inflight, calls, clock, dashboard,
          alertList, logged>>

CollectionNames == {"firearms", "maintenance", "training", "permits"}

\* ------------------------------------------------------------ date values
\* A date string: the empty string, text Date cannot parse, or a date.
NoDate == [kind |-> "empty", t |-> 0]
BadDate == [kind |-> "invalid", t |-> 0]
DateAt(t) == [kind |-> "date", t |-> t]

\* new Date(t).toISOString(): "<date>T<time>"; split('T')[0] is the date.
ToISOString(t) == [date |-> t \div TicksPerDay, time |-> t % TicksPerDay]

\* Math.ceil((expiration - now) / one day)
CeilDays(diff) == -((-diff) \div TicksPerDay)

\* ------------------------------------------------------------ the records
DefaultSettings ==
    [userState |-> "",
     notifications |-> [permitAlerts |-> TRUE, maintenanceAlerts |-> TRUE,
                        trainingAlerts |-> TRUE]]

EmptyData ==
    [firearms |-> <<>>, maintenance |-> <<>>, training |-> <<>>,
     permits |-> <<>>, settings |-> DefaultSettings]

NewFirearm(form, t) ==
    [id |-> t, makeModel |-> form.makeModel, serial |-> form.serial,
     caliber |-> form.caliber, type |-> form.type,
     purchaseDate |-> form.purchaseDate, price |-> form.price,
     notes |-> form.notes, createdAt |-> ToISOString(t)]

NewMaintenance(t) ==
    [id |-> t, type |-> "Cleaning", date |-> ToISOString(t).date,
     firearmId |-> "null", firearmMakeModel |-> "General", notes |-> "",
     createdAt |-> ToISOString(t)]

NewTraining(t) ==
    [id |-> t, type |-> "Range Session", date |-> ToISOString(t).date,
     duration |-> 1, firearmId |-> "null", firearmMakeModel |-> "General",
     notes |-> "", score |-> "null", createdAt |-> ToISOString(t)]

NewPermit(t) ==
    [id |-> t, type |-> "Concealed Carry", state |-> "", issueDate |-> "",
     expirationDate |-> NoDate, permitNumber |-> "", notes |-> "",
     createdAt |-> ToISOString(t)]

\* ------------------------------------------------------- the alert engine
\* daysUntil <= n, with daysUntil = (new Date(s) - now) / one day; an empty
\* or unparsable string gives NaN, and every comparison with NaN is false.
DaysUntilAtMost(s, now, n) ==
    /\ s.kind = "date"
    /\ s.t - now <= n * TicksPerDay

IsPermitExpiringSoon30(permit, now) ==
    IF permit.expirationDate.kind = "empty" THEN FALSE
    ELSE DaysUntilAtMost(permit.expirationDate, now, UrgentDays)

IsPermitExpiringSoon(permit, now) ==
    IF permit.expirationDate.kind = "empty" THEN FALSE
    ELSE DaysUntilAtMost(permit.expirationDate, now, SoonDays)

RECURSIVE CalculateAlerts(_, _)
CalculateAlerts(permits, now) ==
    IF permits = <<>> THEN 0
    ELSE (IF IsPermitExpiringSoon(Head(permits), now) THEN 1 ELSE 0)
         + CalculateAlerts(Tail(permits), now)

Alert(permit, now, title, priority) ==
    [title |-> title, permitType |-> permit.type, state |-> permit.state,
     days |-> CeilDays(permit.expirationDate.t - now), priority |-> priority]

\* The mutant drops a permit that has already expired.
AlertsForDropExpired(permit, now) ==
    IF permit.expirationDate.kind = "empty" THEN <<>>
    ELSE IF permit.expirationDate.kind = "date"
            /\ permit.expirationDate.t - now < 0 THEN <<>>
    ELSE IF DaysUntilAtMost(permit.expirationDate, now, UrgentDays)
        THEN <<Alert(permit, now, "Expiring Soon", "high")>>
    ELSE IF DaysUntilAtMost(permit.expirationDate, now, SoonDays)
        THEN <<Alert(permit, now, "Renewal Reminder", "medium")>>
    ELSE <<>>

\* The body of generateAlerts' forEach: the alerts one permit pushes.
AlertsFor(permit, now) ==
    IF permit.expirationDate.kind = "empty" THEN <<>>
    ELSE IF DaysUntilAtMost(permit.expirationDate, now, UrgentDays)
        THEN <<Alert(permit, now, "Expiring Soon", "high")>>
    ELSE IF DaysUntilAtMost(permit.expirationDate, now, SoonDays)
        THEN <<Alert(permit, now, "Renewal Reminder", "medium")>>
    ELSE <<>>

RECURSIVE GenerateAlerts(_, _)
GenerateAlerts(permits, now) ==
    IF permits = <<>> THEN <<>>
    ELSE AlertsFor(Head(permits), now) \o GenerateAlerts(Tail(permits), now)

UpdateDashboard(d, now) ==
    [gunCount |-> Len(d.firearms),
     maintenanceCount |-> Len(d.maintenance),
     trainingCount |-> Len(d.training),
     alertCount |-> CalculateAlerts(d.permits, now)]

\* ------------------------------------------------------ the record store
\* An object store with keyPath 'id' refuses a second record with a key it
\* already holds (ConstraintError).
KeyConflict(rows, item) == \E i \in 1..Len(rows) : rows[i].id = item.id

\* store.add(item): the object store keeps its records in key order, which
\* is the order store.getAll() returns them in.
InsertByKey(rows, item) ==
    LET below == SelectSeq(rows, LAMBDA r : r.id <= item.id)
        above == SelectSeq(rows, LAMBDA r : r.id > item.id)
    IN  below \o <<item>> \o above

GetAllRequest(name) == [kind |-> "getAll", store |-> name, call |-> 0]
AddRequest(name, item, c) ==
    [kind |-> "add", store |-> name, call |-> c, item |-> item]

\* Transactions over the same object store run in the order they were
\* created: a request waits for every earlier request on its store.
Blocked(q, i) == \E j \in 1..(i - 1) : q[j].store = q[i].store

Remove(q, i) == SubSeq(q, 1, i - 1) \o SubSeq(q, i + 1, Len(q))

\* ------------------------------------------- what earlier sessions stored
OldFirearm ==
    [id |-> 1, makeModel |-> "G19", serial |-> "SN1", caliber |-> "9mm",
     type |-> "Pistol", purchaseDate |-> "", price |-> "", notes |-> "",
     createdAt |-> ToISOString(1)]

OldPermit(expirationDate) ==
    [id |-> 2, type |-> "Concealed Carry", state |-> "TX", issueDate |-> "",
     expirationDate |-> expirationDate, permitNumber |-> "", notes |-> "",
     createdAt |-> ToISOString(2)]

OldSettings ==
    [key |-> "settings",
     value |-> [userState |-> "TX",
                notifications |-> [permitAlerts |-> TRUE,
                                   maintenanceAlerts |-> FALSE,
                                   trainingAlerts |-> TRUE]]]

EmptyStore ==
    [firearms |-> <<>>, maintenance |-> <<>>, training |-> <<>>,
     permits |-> <<>>, settings |-> <<>>]

\* The first run (onupgradeneeded has just created the five empty stores),
\* a store written by earlier sessions, and one whose permit carries an
\* expiration date one tick outside the urgent window.
InitialStores ==
    { EmptyStore,
      [EmptyStore EXCEPT !.firearms = <<OldFirearm>>,
                         !.permits = <<OldPermit(NoDate)>>],
      [EmptyStore EXCEPT
          !.permits = <<OldPermit(DateAt(StartClock + UrgentDays * TicksPerDay + 1))>>,
          !.settings = <<OldSettings>>] }

\* ------------------------------------------------------------------ Init
\* Loading app.js: rejected by the parser (the file as shipped), or loaded
\* (the duplicate declaration repaired).
ScriptOutcomes == {"SyntaxError", "loaded"}

\* The script runs: the class is defined, DOMContentLoaded has constructed
\* window.app and the window.* handlers exist.
ScriptLoaded == script = "loaded" /\ script' = script

NoDashboard ==
    [gunCount |-> 0, maintenanceCount |-> 0, trainingCount |-> 0,
     alertCount |-> 0]

Init ==
    /\ script \in ScriptOutcomes
    /\ db = FALSE
    /\ initPc = "initDB"
    /\ store \in InitialStores
    /\ data = EmptyData
    /\ inflight = <<>>
    /\ calls = <<>>
    /\ clock = StartClock
    /\ dashboard = NoDashboard
    /\ alertList = <<>>
    /\ logged = {}

\* --------------------------------------------------------------- startup
\* loadData: if (!this.db) return;
LoadDataReturnsEarly(dbv) == ~dbv

NextStore(name) ==
    CASE name = "firearms" -> "maintenance"
      [] name = "maintenance" -> "training"
      [] name = "training" -> "permits"
      [] name = "permits" -> "settings"

\* init() after loadData has returned: setupEventListeners, setupPWA,
\* checkOfflineStatus, updateDashboard.
FinishInit(d) ==
    /\ initPc' = "ready"
    /\ dashboard' = UpdateDashboard(d, clock)

\* init() once initDB has resolved: loadData up to its first await.
AfterInitDB(dbv) ==
    IF LoadDataReturnsEarly(dbv)
    THEN /\ FinishInit(data)
         /\ UNCHANGED inflight
    ELSE /\ initPc' = "firearms"
         /\ inflight' = Append(inflight, GetAllRequest("firearms"))
         /\ UNCHANGED dashboard

\* indexedDB.open: request.onsuccess
OpenSuccess ==
    /\ ScriptLoaded
    /\ initPc = "initDB"
    /\ db' = TRUE
    /\ AfterInitDB(TRUE)
    /\ UNCHANGED <<store, data, calls, clock, alertList, logged>>

\* indexedDB.open: request.onerror
OpenError ==
    /\ ScriptLoaded
    /\ initPc = "initDB"
    /\ db' = FALSE
    /\ logged' = logged \cup {"Database error"}
    /\ AfterInitDB(FALSE)
    /\ UNCHANGED <<store, data, calls, clock, alertList>>

\* indexedDB.open throws inside initDB's promise executor (indexedDB is
\* undefined, or storage is denied: SecurityError).  The executor has no
\* try/catch, so initDB rejects, 'await this.initDB()' throws and init ends
\* there, rejected: loadData, setupEventListeners and updateDashboard never
\* run.  The throw comes within the constructor's call of init, before any
\* other handler can run.
OpenThrows ==
    /\ ScriptLoaded
    /\ initPc = "initDB"
    /\ calls = <<>>
    /\ clock = StartClock
    /\ initPc' = "rejected"
    /\ UNCHANGED <<db, store, data, inflight, calls, clock, dashboard,
                   alertList, logged>>

\* loadData's assignment of one getAll result.
LoadResult(d, name, result) ==
    IF name = "settings"
    THEN IF Len(result) > 0 THEN [d EXCEPT !.settings = result[1].value]
         ELSE d
    ELSE [d EXCEPT ![name] = result]

\* getAll: request.onsuccess, and loadData up to its next await.
GetAllSuccess ==
    \E i \in 1..Len(inflight) :
        /\ ScriptLoaded
        /\ inflight[i].kind = "getAll"
        /\ ~Blocked(inflight, i)
        /\ LET name == inflight[i].store
               d1 == LoadResult(data, name, store[name])
           IN  /\ data' = d1
               /\ IF name = "settings"
                  THEN /\ inflight' = Remove(inflight, i)
                       /\ FinishInit(d1)
                  ELSE /\ inflight' = Append(Remove(inflight, i),
                                             GetAllRequest(NextStore(name)))
                       /\ initPc' = NextStore(name)
                       /\ UNCHANGED dashboard
        /\ UNCHANGED <<db, store, calls, clock, alertList, logged>>

\* getAll: request.onerror; loadData's catch logs it and loadData returns.
GetAllError ==
    \E i \in 1..Len(inflight) :
        /\ ScriptLoaded
        /\ inflight[i].kind = "getAll"
        /\ ~Blocked(inflight, i)
        /\ inflight' = Remove(inflight, i)
        /\ logged' = logged \cup {"Error loading data"}
        /\ FinishInit(data)
        /\ UNCHANGED <<db, store, data, calls, clock, alertList>>

\* ------------------------------------------------------ the facade calls
\* What the user typed into the Add Firearm form.
FirearmForms ==
    [makeModel : {"", "P365"}, serial : {"SN1"}, caliber : {"9mm"},
     type : {"Pistol"}, purchaseDate : {""}, price : {""}, notes : {""}]

\* The mutant accepts every form.
IsValidFirearmAlways(firearm) == TRUE

\* saveFirearm: if (!firearm.makeModel) { alert(...); return; }
IsValidFirearm(firearm) == firearm.makeModel # ""

StoreOf(op) ==
    CASE op = "saveFirearm" -> "firearms"
      [] op = "addMaintenance" -> "maintenance"
      [] op = "addTraining" -> "training"
      [] op = "addPermit" -> "permits"

Call(op, item, status, error) ==
    [op |-> op, item |-> item, status |-> status, error |-> error]

\* addItem up to the store request: this.db.transaction(...) throws a
\* TypeError while this.db is null, which rejects addItem's promise and with
\* it the calling method; otherwise store.add(item) is issued.
AddItem(op, item) ==
    IF ~db
    THEN /\ calls' = Append(calls, Call(op, item, "rejected", "TypeError"))
         /\ UNCHANGED inflight
    ELSE /\ calls' = Append(calls, Call(op, item, "pending", "none"))
         /\ inflight' = Append(inflight,
                               AddRequest(StoreOf(op), item, Len(calls) + 1))

\* saveFirearm up to its await
SaveFirearm ==
    \E form \in FirearmForms :
        /\ ScriptLoaded
        /\ Len(calls) < MaxCalls
        /\ LET firearm == NewFirearm(form, clock)
           IN  IF IsValidFirearm(firearm)
               THEN AddItem("saveFirearm", firearm)
               ELSE /\ calls' = Append(calls, Call("saveFirearm", firearm,
                                                   "invalid", "alert"))
                    /\ UNCHANGED inflight
        /\ UNCHANGED <<db, initPc, store, data, clock, dashboard, alertList, logged>>

\* addMaintenance up to its await
AddMaintenance ==
    /\ ScriptLoaded
    /\ Len(calls) < MaxCalls
    /\ AddItem("addMaintenance", NewMaintenance(clock))
    /\ UNCHANGED <<db, initPc, store, data, clock, dashboard, alertList, logged>>

\* addTraining up to its await
AddTraining ==
    /\ ScriptLoaded
    /\ Len(calls) < MaxCalls
    /\ AddItem("addTraining", NewTraining(clock))
    /\ UNCHANGED <<db, initPc, store, data, clock, dashboard, alertList, logged>>

\* addPermit up to its await
AddPermit ==
    /\ ScriptLoaded
    /\ Len(calls) < MaxCalls
    /\ AddItem("addPermit", NewPermit(clock))
    /\ UNCHANGED <<db, initPc, store, data, clock, dashboard, alertList, logged>>

\* this.data.<collection>.push(item)
Push(d, name, item) == [d EXCEPT ![name] = Append(@, item)]

\* The snapshot when 'await this.addItem(...)' throws: the method ends there.
AfterAddRejected(d, name, item) == d

\* The dashboard counters after the method's view updates: saveFirearm,
\* addMaintenance and addTraining call updateDashboard, addPermit calls
\* updateCompliance only.
DashboardAfter(op, d, now, shown) ==
    IF op = "addPermit" THEN shown ELSE UpdateDashboard(d, now)

\* The alert cards after the method's view updates: only addPermit's
\* updateCompliance calls updateAlerts.  (updateComplianceInfo, which
\* updateCompliance calls last, writes #complianceInfo only.)
AlertListAfter(op, d, now, shown) ==
    IF op = "addPermit" THEN GenerateAlerts(d.permits, now) ELSE shown

\* What the object store holds once the add's transaction has ended: the
\* record if the transaction committed, what it held before if it aborted
\* at commit (quota exceeded, disk error).
AfterTransaction(rows, item, committed) ==
    IF committed THEN InsertByKey(rows, item) ELSE rows

\* addItem: request.onsuccess, and the calling method to its end.  addItem
\* resolves on the request's success event and listens to no event of the
\* transaction, so the method runs on the same whether the transaction then
\* commits or aborts.
AddSuccess ==
    \E i \in 1..Len(inflight), committed \in BOOLEAN :
        /\ ScriptLoaded
        /\ inflight[i].kind = "add"
        /\ ~Blocked(inflight, i)
        /\ LET name == inflight[i].store
               item == inflight[i].item
               c == inflight[i].call
               d1 == Push(data, name, item)
           IN  /\ ~KeyConflict(store[name], item)
               /\ store' = [store EXCEPT
                     ![name] = AfterTransaction(@, item, committed)]
               /\ data' = d1
               /\ dashboard' = DashboardAfter(calls[c].op, d1, clock, dashboard)
               /\ alertList' = AlertListAfter(calls[c].op, d1, clock, alertList)
               /\ calls' = [calls EXCEPT ![c].status = "ok"]
        /\ inflight' = Remove(inflight, i)
        /\ UNCHANGED <<db, initPc, clock, logged>>

\* addItem: request.onerror (the key is taken, or the write failed); the
\* transaction aborts and the calling method's await throws.
AddError ==
    \E i \in 1..Len(inflight) :
        /\ ScriptLoaded
        /\ inflight[i].kind = "add"
        /\ ~Blocked(inflight, i)
        /\ LET name == inflight[i].store
               item == inflight[i].item
               c == inflight[i].call
           IN  /\ data' = AfterAddRejected(data, name, item)
               /\ calls' = [calls EXCEPT
                     ![c].status = "rejected",
                     ![c].error = IF KeyConflict(store[name], item)
                                  THEN "ConstraintError" ELSE "IOError"]
        /\ inflight' = Remove(inflight, i)
        /\ UNCHANGED <<db, initPc, store, clock, dashboard, alertList, logged>>

\* The inventory card's delete button: onclick="app.deleteFirearm(id)".
\* CarryVaultApp defines no deleteFirearm, so the call is a TypeError.
DeleteFirearm ==
    \E i \in 1..Len(data.firearms) :
        /\ ScriptLoaded
        /\ Len(calls) < MaxCalls
        /\ calls' = Append(calls, Call("deleteFirearm", data.firearms[i],
                                       "rejected", "TypeError"))
        /\ UNCHANGED <<db, initPc, store, data, inflight, clock, dashboard,
                       alertList, logged>>

\* The mutant exports the firearms projected as exportInventory does.
ExportDocumentProjected(d, now) ==
    [firearms |-> [k \in 1..Len(d.firearms) |->
                      [makeModel |-> d.firearms[k].makeModel,
                       serial |-> d.firearms[k].serial,
                       caliber |-> d.firearms[k].caliber,
                       type |-> d.firearms[k].type,
                       purchaseDate |-> d.firearms[k].purchaseDate,
                       price |-> d.firearms[k].price]],
     maintenance |-> d.maintenance, training |-> d.training,
     permits |-> d.permits, settings |-> d.settings,
     exportDate |-> ToISOString(now)]

\* exportData: const data = {...}
ExportDocument(d, now) ==
    [firearms |-> d.firearms, maintenance |-> d.maintenance,
     training |-> d.training, permits |-> d.permits,
     settings |-> d.settings, exportDate |-> ToISOString(now)]

\* JSON.stringify(data, null, 2): the object's members, name and value, in
\* the order the object literal lists them.
JsonStringify(doc) ==
    << <<"firearms", doc.firearms>>, <<"maintenance", doc.maintenance>>,
       <<"training", doc.training>>, <<"permits", doc.permits>>,
       <<"settings", doc.settings>>, <<"exportDate", doc.exportDate>> >>

\* exportData: the file handed to the browser as a download.
ExportFile(d, now) ==
    [download |-> <<"carryvault-export", ToISOString(now).date>>,
     text |-> JsonStringify(ExportDocument(d, now))]

\* exportData (header button, quick action or window.exportData)
ExportData ==
    /\ ScriptLoaded
    /\ Len(calls) < MaxCalls
    /\ calls' = Append(calls, Call("exportData", ExportFile(data, clock),
                                   "ok", "none"))
    /\ UNCHANGED <<db, initPc, store, data, inflight, clock, dashboard,
                   alertList, logged>>

\* showSection('dashboard'): updateDashboard over the snapshot as it is.
\* window.showSection and app.showSection exist from construction on, so the
\* call can come while init is still loading; the navigation listeners of
\* setupEventListeners are added at the end of init.
ShowDashboard ==
    /\ ScriptLoaded
    /\ dashboard' = UpdateDashboard(data, clock)
    /\ UNCHANGED <<db, initPc, store, data, inflight, calls, clock,
                   alertList, logged>>

\* showSection('compliance'): updateCompliance, whose updateAlerts renders
\* generateAlerts(); it too can come while init is still loading.
ShowCompliance ==
    /\ ScriptLoaded
    /\ alertList' = GenerateAlerts(data.permits, clock)
    /\ UNCHANGED <<db, initPc, store, data, inflight, calls, clock,
                   dashboard, logged>>

\* Time passes.
Tick ==
    /\ ScriptLoaded
    /\ clock < StartClock + MaxTicks
    /\ clock' = clock + 1
    /\ UNCHANGED <<db, initPc, store, data, inflight, calls, dashboard,
                   alertList, logged>>

Next ==
    \/ OpenSuccess
    \/ OpenError
    \/ OpenThrows
    \/ GetAllSuccess
    \/ GetAllError
    \/ SaveFirearm
    \/ AddMaintenance
    \/ AddTraining
    \/ AddPermit
    \/ AddSuccess
    \/ AddError
    \/ DeleteFirearm
    \/ ExportData
    \/ ShowDashboard
    \/ ShowCompliance
    \/ Tick

Spec == Init /\ [][Next]_vars

\* ------------------------------------------- the alert engine on its own
\* Expiration dates around the two thresholds, as seen from StartClock:
\* none, unparsable, 5 days ago, and 10, 30, 30+, 60, 90, 90+ and 120 days
\* out ('+' is one tick later).
ExpirationInputs ==
    {NoDate, BadDate} \cup
    {DateAt(StartClock + off) :
        off \in {0 - 5 * TicksPerDay, 10 * TicksPerDay,
                 UrgentDays * TicksPerDay, UrgentDays * TicksPerDay + 1,
                 60 * TicksPerDay, SoonDays * TicksPerDay,
                 SoonDays * TicksPerDay + 1, 120 * TicksPerDay}}

PermitInput(i, expirationDate) ==
    [id |-> i, type |-> "Concealed Carry", state |-> "TX", issueDate |-> "",
     expirationDate |-> expirationDate, permitNumber |-> "", notes |-> "",
     createdAt |-> ToISOString(i)]

PermitLists ==
    UNION {{[i \in 1..n |-> PermitInput(i, es[i])] :
               es \in [1..n -> ExpirationInputs]} : n \in 0..MaxPermits}

\* The application starting over a store that holds the given permits.
InitAlerts ==
    /\ script \in ScriptOutcomes
    /\ db = FALSE
    /\ initPc = "initDB"
    /\ \E ps \in PermitLists : store = [EmptyStore EXCEPT !.permits = ps]
    /\ data = EmptyData
    /\ inflight = <<>>
    /\ calls = <<>>
    /\ clock = StartClock
    /\ dashboard = NoDashboard
    /\ alertList = <<>>
    /\ logged = {}

NextAlerts ==
    \/ OpenSuccess
    \/ GetAllSuccess
    \/ ShowDashboard
    \/ ShowCompliance
    \/ Tick

SpecAlerts == InitAlerts /\ [][NextAlerts]_vars

\* ------------------------------------------------------------ the claims
Rows(rows) == {rows[k] : k \in 1..Len(rows)}
Copies(rows, item) == Cardinality({k \in 1..Len(rows) : rows[k] = item})
HoldsId(rows, id) == \E k \in 1..Len(rows) : rows[k].id = id
AddOps == {"saveFirearm", "addMaintenance", "addTraining", "addPermit"}

\* The call whose store request completes in this step.
Completes(i) ==
    /\ i \in 1..Len(calls)
    /\ calls[i].status = "pending"
    /\ calls'[i].status # "pending"

\* C1: once a saveFirearm with a non-empty makeModel has run (its write not
\* failing on an I/O error or at commit), the firearms store and the firearms
\* snapshot each hold exactly one copy of the submitted record, and no record
\* that was in the store before carries its id -- also for saves issued at
\* the same clock value.
C1_SavedExactlyOnceWithFreshId ==
    [][\A i \in 1..Len(calls) :
          (/\ Completes(i)
           /\ calls[i].op = "saveFirearm"
           /\ calls'[i].error # "IOError"
           /\ ~(calls'[i].status = "ok" /\ store' = store))
          => /\ ~HoldsId(store.firearms, calls[i].item.id)
             /\ Copies(store'.firearms, calls[i].item) = 1
             /\ Copies(data'.firearms, calls[i].item) = 1]_vars

\* C2: a saveFirearm with an empty makeModel issues no store request and
\* leaves the firearms store and the snapshot as they were; no record with an
\* empty makeModel is ever requested, stored or held in the snapshot.
C2_EmptyMakeModelRejected ==
    [][/\ (/\ Len(calls') = Len(calls) + 1
           /\ calls'[Len(calls')].op = "saveFirearm"
           /\ calls'[Len(calls')].item.makeModel = "")
          => /\ calls'[Len(calls')].status = "invalid"
             /\ inflight' = inflight
             /\ store' = store
             /\ data' = data
       /\ \A r \in Rows(store'.firearms) \cup Rows(data'.firearms) :
             r.makeModel # ""
       /\ \A k \in 1..Len(inflight') :
             inflight'[k].store = "firearms" /\ inflight'[k].kind = "add"
             => inflight'[k].item.makeModel # ""]_vars

\* C2 witness: an empty form was submitted while the store was open and
\* already held a firearm.
C2_Witness ==
    /\ db
    /\ store.firearms # <<>>
    /\ \E i \in 1..Len(calls) :
          calls[i].op = "saveFirearm" /\ calls[i].item.makeModel = ""

UniqueIds(rows) ==
    \A j, k \in 1..Len(rows) : rows[j].id = rows[k].id => j = k

\* C3: in every collection, store and snapshot alike, no two records share
\* an id, and an id that a record carries is never carried by a different
\* record afterwards.
C3_UniqueStableIds ==
    [][\A c \in CollectionNames :
          /\ UniqueIds(store'[c])
          /\ UniqueIds(data'[c])
          /\ \A r \in Rows(store[c]) \cup Rows(data[c]) :
                \A r2 \in Rows(store'[c]) \cup Rows(data'[c]) :
                    r.id = r2.id => r = r2]_vars

\* The claim's classification of one permit at the reference time 'now'
\* (for an unparsable date daysUntil is NaN and none of its comparisons
\* holds).
ClaimedPriority(permit, now) ==
    IF permit.expirationDate.kind # "date" THEN "none"
    ELSE IF permit.expirationDate.t - now <= UrgentDays * TicksPerDay
        THEN "high"
    ELSE IF permit.expirationDate.t - now <= SoonDays * TicksPerDay
        THEN "medium"
    ELSE "none"

RECURSIVE ClaimedPriorities(_, _)
ClaimedPriorities(permits, now) ==
    IF permits = <<>> THEN <<>>
    ELSE (IF ClaimedPriority(Head(permits), now) = "none" THEN <<>>
          ELSE <<ClaimedPriority(Head(permits), now)>>)
         \o ClaimedPriorities(Tail(permits), now)

Priorities(alerts) == [k \in 1..Len(alerts) |-> alerts[k].priority]

\* C4: the alert cards updateAlerts renders are, permit by permit and in
\* order, exactly the claimed ones: none for an empty expirationDate, one
\* high alert for daysUntil <= 30 (expired permits included), one medium
\* alert for 30 < daysUntil <= 90, none beyond; never two for one permit.
C4_AlertClassification ==
    [][ShowCompliance
       => /\ Priorities(alertList') = ClaimedPriorities(data.permits, clock)
          /\ \A k \in 1..Len(data.permits) :
                Priorities(GenerateAlerts(<<data.permits[k]>>, clock))
                = ClaimedPriorities(<<data.permits[k]>>, clock)]_vars

\* C4 witness: an expired permit, one in the reminder window and one beyond
\* it were rendered as one high and one medium alert.
C4_Witness ==
    /\ Len(data.permits) = 3
    /\ data.permits[1].expirationDate.kind = "date"
    /\ data.permits[1].expirationDate.t < clock
    /\ ClaimedPriority(data.permits[2], clock) = "medium"
    /\ data.permits[3].expirationDate.kind = "date"
    /\ ClaimedPriority(data.permits[3], clock) = "none"
    /\ Priorities(alertList) = <<"high", "medium">>
    /\ alertList[1].days < 0

SoonCount(permits, now) ==
    Cardinality({k \in 1..Len(permits) :
                    /\ permits[k].expirationDate.kind = "date"
                    /\ permits[k].expirationDate.t - now
                       <= SoonDays * TicksPerDay})

\* updateDashboard runs in this step: showSection('dashboard'), or the end
\* of init.
DashboardWritten ==
    \/ ShowDashboard
    \/ initPc # "ready" /\ initPc' = "ready"

\* C5: the alert count updateDashboard writes is the number of permits with
\* a non-empty expirationDate and daysUntil <= 90, which is the number of
\* alerts generateAlerts gives for the same permits at the same time, and
\* isPermitExpiringSoon holds of exactly the permits generateAlerts alerts on.
C5_AlertCountConsistent ==
    [][DashboardWritten
       => /\ dashboard'.alertCount = SoonCount(data'.permits, clock)
          /\ dashboard'.alertCount = Len(GenerateAlerts(data'.permits, clock))
          /\ \A k \in 1..Len(data'.permits) :
                IsPermitExpiringSoon(data'.permits[k], clock)
                <=> GenerateAlerts(<<data'.permits[k]>>, clock) # <<>>]_vars

\* C5 witness: permits 10, 60 and 120 days out give an alert count of 2.
C5_Witness ==
    /\ initPc = "ready"
    /\ Len(data.permits) = 3
    /\ data.permits[1].expirationDate = DateAt(clock + 10 * TicksPerDay)
    /\ data.permits[2].expirationDate = DateAt(clock + 60 * TicksPerDay)
    /\ data.permits[3].expirationDate = DateAt(clock + 120 * TicksPerDay)
    /\ dashboard.alertCount = 2
    /\ Len(alertList) = 2

\* C6: when an add operation returns after startup, the record is in the
\* snapshot and the dashboard counts and the alert list are those computed
\* from the snapshot as it then is.
C6_DerivedDataRecomputed ==
    [][\A i \in 1..Len(calls) :
          (/\ Completes(i)
           /\ calls'[i].status = "ok"
           /\ initPc = "ready")
          => /\ calls[i].item \in Rows(data'[StoreOf(calls[i].op)])
             /\ dashboard' = UpdateDashboard(data', clock)
             /\ alertList' = GenerateAlerts(data'.permits, clock)]_vars

\* Opening the store has failed: the open request's error event, or
\* indexedDB.open throwing.
OpenFailed == "Database error" \in logged \/ initPc = "rejected"

\* C7: once opening the store has failed, in either way, init has run to its
\* end, no store request is in flight, and the snapshot is empty with
\* default settings.
C7_StartupSurvivesOpenFailure ==
    OpenFailed
    => /\ initPc = "ready"
       /\ ~db
       /\ inflight = <<>>
       /\ data = EmptyData

\* C8: after the store failed to open, an add operation with valid input
\* completes without error and its record is in the snapshot.
C8_AddWorksWithoutStore ==
    [][(/\ "Database error" \in logged
        /\ Len(calls') = Len(calls) + 1
        /\ calls'[Len(calls')].op \in AddOps
        /\ calls'[Len(calls')].status # "invalid")
       => /\ calls'[Len(calls')].status # "rejected"
          /\ calls'[Len(calls')].item
             \in Rows(data'[StoreOf(calls'[Len(calls')].op)])]_vars

\* An add request leaves the store without having written in this step.
WriteFails(k) ==
    /\ k \in 1..Len(inflight)
    /\ inflight[k].kind = "add"
    /\ inflight[k] \notin Rows(inflight')
    /\ store' = store

\* C9: when the store write of an add fails, the calling operation is
\* rejected, and the store and the snapshot stay as they were; an operation
\* is rejected only with the store and the snapshot unchanged.
C9_FailedWriteChangesNothing ==
    [][/\ \A k \in 1..Len(inflight) :
             WriteFails(k)
             => /\ calls'[inflight[k].call].status = "rejected"
                /\ calls'[inflight[k].call].error
                   \in {"ConstraintError", "IOError"}
                /\ data' = data
       /\ \A i \in 1..Len(calls) :
             Completes(i) /\ calls'[i].status = "rejected"
             => store' = store /\ data' = data]_vars

\* C10: a delete of a record by id succeeds and leaves the record neither in
\* the store nor in the snapshot; only a repeated delete of the id fails,
\* with NotFound.
C10_DeleteRemovesRecord ==
    \A i \in 1..Len(calls) :
        calls[i].op = "deleteFirearm"
        => /\ \/ calls[i].status = "ok"
              \/ /\ calls[i].error = "NotFound"
                 /\ \E j \in 1..(i - 1) :
                       /\ calls[j].op = "deleteFirearm"
                       /\ calls[j].item.id = calls[i].item.id
           /\ ~HoldsId(store.firearms, calls[i].item.id)
           /\ ~HoldsId(data.firearms, calls[i].item.id)

\* C11: once loadData has returned, the snapshot holds one settings object:
\* the persisted row's value if the store is open and holds a settings row,
\* the default otherwise.
C11_SettingsLoaded ==
    initPc = "ready"
    => data.settings = IF db /\ store.settings # <<>>
                       THEN store.settings[1].value
                       ELSE DefaultSettings

\* The value of the member 'name' of a JSON object text.
Member(text, name) ==
    text[CHOOSE k \in 1..Len(text) : text[k][1] = name][2]

\* A backup's four arrays and settings, read back as a snapshot.
LoadBackup(text) ==
    [firearms |-> Member(text, "firearms"),
     maintenance |-> Member(text, "maintenance"),
     training |-> Member(text, "training"),
     permits |-> Member(text, "permits"),
     settings |-> Member(text, "settings")]

\* An exportData call is made in this step.
Exports ==
    /\ Len(calls') = Len(calls) + 1
    /\ calls'[Len(calls')].op = "exportData"

\* C12: the backup exportData writes has exactly the members firearms,
\* maintenance, training, permits, settings and exportDate; read back, its
\* collections and settings are the snapshot as it was (same records, same
\* order); exportDate is the time of the export; snapshot and store are left
\* unchanged.
C12_BackupRoundTrip ==
    [][Exports
       => LET text == calls'[Len(calls')].item.text
          IN  /\ [k \in 1..Len(text) |-> text[k][1]]
                 = <<"firearms", "maintenance", "training", "permits",
                     "settings", "exportDate">>
              /\ LoadBackup(text) = data
              /\ Member(text, "exportDate") = ToISOString(clock)
              /\ data' = data
              /\ store' = store]_vars

\* C12 witness: a backup was written of a snapshot that held a loaded
\* firearm and a permit, with persisted settings.
C12_Witness ==
    \E i \in 1..Len(calls) :
        /\ calls[i].op = "exportData"
        /\ Member(calls[i].item.text, "firearms") # <<>>
        /\ Member(calls[i].item.text, "permits") # <<>>
        /\ LoadBackup(calls[i].item.text) = data

\* C13: a failing store operation is surfaced to its caller: a failed add
\* rejects the calling operation, and a failed getAll of the startup load
\* does not let init run on to its end as after a successful load.
C13_FailuresSurfaced ==
    [][/\ \A k \in 1..Len(inflight) :
             WriteFails(k) => calls'[inflight[k].call].status = "rejected"
       /\ GetAllError => initPc' # "ready"]_vars

\* C14: at most one store request is in flight.
C14_OneRequestInFlight == Len(inflight) <= 1

\* C15: while the store is open and no request is in flight, each snapshot
\* collection holds exactly the records of its object store.
C15_SnapshotAgreesWithStore ==
    (db /\ inflight = <<>>)
    => \A c \in CollectionNames : Rows(data[c]) = Rows(store[c])

====
